---- MODULE Spec2Model ----
(***************************************************************************)
(* The resumable fetch pipelines of jw-media-download:                     *)
(*   src/media-vtt.py          download_vtt_files  (subtitle tracks)       *)
(*   src/publications-jwpub.py download_jwpubs     (publication bundles)   *)
(* Each pipeline walks a catalog, consults a SQLite state table, resolves  *)
(* an asset URL through the GETPUBMEDIALINKS API, fetches it with a        *)
(* bounded retry loop and writes one state row per key.                    *)
(***************************************************************************)
EXTENDS Integers, Sequences, FiniteSets, TLC

(***************************************************************************)
(* Bounds of the model.                                                    *)
(***************************************************************************)
CatalogLen == 2
MaxFiles == 2
MaxLines == 3
MaxCalls == 3
MaxSymLen == 2

(***************************************************************************)
(* Program constants.                                                      *)
(***************************************************************************)
VttMaxRetries == 3
VttBackoffBase == 2
JwMaxRetries == 3
JwInitialWait == 2
JwBackoffFactor == 2

VARIABLES
  prog,          \* which script runs: "vtt", "jwpub", "main", or a pure part
  catalog,       \* media_info / publications: the entries of this process
  run,           \* "first" until the script has been started again, then "later"
  idx,           \* position of the for-loop in the catalog
  pc,            \* control point of the current entry
  db,            \* the state table: a sequence of rows in insertion order
  api,           \* GETPUBMEDIALINKS: key -> response (fixed once observed)
  status,        \* local `status` / `state_row` of the current entry
  asset_url,     \* local `vtt_file_url` / `download_url`
  retry_count,   \* local `retry_count`
  wait_time,     \* local `wait_time` (jwpub) / last computed wait (vtt)
  events,        \* history: network calls, sleeps and writes of this entry
  startStatus,   \* history: key -> persisted status when this run started
  resolved,      \* history: the keys with a link-resolution call in this run
  fetched,       \* history: the keys with an asset GET in this run
  written,       \* history: the keys with a state-table write attempted in this run
  nAttempt,      \* history: key -> entries of this run that passed the skip check
  dbFault,       \* history: a state-table statement raised in this run
  media_links,   \* pure part: the response handed to the selection scan
  resolution,    \* pure part: what the scan decided
  interrupted,   \* history: the unrecorded key the last killed process was working on
  other,         \* the locals of a second, descheduled process on the same table
  lines,         \* pure part: the lines of the catalog file handed to the ingestion
  media_info     \* pure part: what the ingestion returned

vars == <<prog, catalog, run, idx, pc, db, api, status, asset_url, retry_count,
          wait_time, events, startStatus, resolved, fetched, written, nAttempt,
          dbFault, media_links, resolution, interrupted, other, lines,
          media_info>>

(***************************************************************************)
(* Values.                                                                 *)
(***************************************************************************)
None == "None"                      \* Python None / SQL NULL

JW_LANG == "S"

\* Titles, told apart by whether they contain "(con audiodescripciones)".
PlainTitle == "Video"
MarkedTitle == "Video (con audiodescripciones)"
Titles == {PlainTitle, MarkedTitle}

HasMarker(title) == title = MarkedTitle

GoodUrls == {"https://cdn/a.vtt", "https://cdn/b.vtt"}
EmptyUrl == ""

\* A file descriptor of the API response.  shape "notmap" is a JSON value
\* that is not an object; subtitles is "absent" (no such member), None
\* (JSON null), "nourl" (an object without 'url') or the 'url' value.
SubtitleValues == {"absent", None, "nourl", EmptyUrl} \cup GoodUrls

NotMapFile == [shape |-> "notmap", title |-> PlainTitle, subtitles |-> "absent"]

FileDescriptors ==
  [shape : {"map"}, title : Titles, subtitles : SubtitleValues] \cup {NotMapFile}

\* A response of get_pub_media_links.  shape:
\*   "None"         the call returned None (HTTP error, exception)
\*   "nofiles"      an object without a 'files' member
\*   "files_notmap" 'files' is not an object
\*   "nolang"       'files' has no JW_LANG member
\*   "lang_notmap"  files[JW_LANG] is not an object
\*   "ok"           files[JW_LANG] maps format labels to descriptor lists
ShapedResponse(shape, pubName, mp4, mp3) ==
  [shape |-> shape, pubName |-> pubName, MP4 |-> mp4, MP3 |-> mp3]

\* The responses whose descriptor lists are drawn from files and hold at most
\* n descriptors together.
ResponsesOver(files, n) ==
  {ShapedResponse("None", PlainTitle, <<>>, <<>>)}
  \cup {ShapedResponse(s, t, <<>>, <<>>) :
          s \in {"nofiles", "files_notmap", "nolang", "lang_notmap"}, t \in Titles}
  \cup UNION {{ShapedResponse("ok", t, a, b) :
                 t \in Titles, a \in [1..i -> files], b \in [1..j -> files]} :
               <<i, j>> \in {ij \in (0..n) \X (0..n) : ij[1] + ij[2] <= n}}

AllResponses == ResponsesOver(FileDescriptors, MaxFiles)

(***************************************************************************)
(* The selection scan of download_vtt_files, lines 165-198 and 237-246.    *)
(***************************************************************************)
\* One iteration of the inner loop body (lines 184-195).
ScanFileLastFieldFirst(file) ==
  IF file.shape = "notmap" THEN "raise"
  ELSE IF file.subtitles # "absent" /\ file.subtitles = None THEN "raise"
  ELSE IF file.subtitles \notin {"absent", "nourl"} THEN "found"
  ELSE IF HasMarker(file.title) THEN "skip"
  ELSE "next"

ScanFileSubtitlesKeyOnly(file) ==
  IF file.shape = "notmap" THEN "raise"
  ELSE IF HasMarker(file.title) THEN "skip"
  ELSE IF file.subtitles # "absent"
       THEN IF file.subtitles = None THEN "raise" ELSE "found"
       ELSE "next"

ScanFile(file) ==
  IF file.shape = "notmap" THEN "raise"            \* file.get: AttributeError
  ELSE IF HasMarker(file.title) THEN "skip"
  ELSE IF file.subtitles # "absent"
       THEN IF file.subtitles = None THEN "raise"  \* 'url' in None: TypeError
            ELSE IF file.subtitles = "nourl" THEN "next"
            ELSE "found"
       ELSE "next"

\* The inner loop over one format label (lines 182-195).
RECURSIVE ScanList(_, _)
ScanList(files, i) ==
  IF i > Len(files) THEN [r |-> "exhausted", url |-> None]
  ELSE LET o == ScanFile(files[i]) IN
       IF o = "next" THEN ScanList(files, i + 1)
       ELSE [r |-> o, url |-> IF o = "found" THEN files[i].subtitles ELSE None]

FormatOrderMP3First == <<"MP3", "MP4">>

FormatOrder == <<"MP4", "MP3">>

\* The outer loop over the format labels (lines 181-197).
RECURSIVE ScanFormats(_, _)
ScanFormats(formats, j) ==
  IF j > Len(FormatOrder) THEN [r |-> "exhausted", url |-> None]
  ELSE LET res == ScanList(formats[FormatOrder[j]], 1) IN
       IF res.r = "exhausted" THEN ScanFormats(formats, j + 1) ELSE res

\* What lines 165-246 decide for a response, before any fetch:
\*   "failed"        no media links (line 246)
\*   "skipped"       title exclusion (lines 175, 189)
\*   "no_subtitles"  nothing selected (line 241)
\*   "fetch"         a URL was selected (line 199)
\*   "raise"         an exception leaves download_vtt_files
ResolveFiles(links) ==
  IF HasMarker(links.pubName) THEN [outcome |-> "skipped", url |-> None]
  ELSE IF links.shape \in {"files_notmap", "lang_notmap"}
       THEN [outcome |-> "raise", url |-> None]
  ELSE LET formats == IF links.shape = "nolang"
                      THEN [MP4 |-> <<>>, MP3 |-> <<>>]
                      ELSE [MP4 |-> links.MP4, MP3 |-> links.MP3]
           res == ScanFormats(formats, 1)
       IN  CASE res.r = "raise" -> [outcome |-> "raise", url |-> None]
             [] res.r = "skip" -> [outcome |-> "skipped", url |-> None]
             [] res.r = "found" /\ res.url # EmptyUrl ->
                  [outcome |-> "fetch", url |-> res.url]
             [] OTHER -> [outcome |-> "no_subtitles", url |-> None]

ResolveMissingAsUnavailable(links) ==
  IF links.shape \in {"None", "nofiles"}
  THEN [outcome |-> "no_subtitles", url |-> None]
  ELSE ResolveFiles(links)

\* Line 165: `if media_links and "files" in media_links`, else lines 242-246.
Resolve(links) ==
  IF links.shape \in {"None", "nofiles"} THEN [outcome |-> "failed", url |-> None]
  ELSE ResolveFiles(links)

(***************************************************************************)
(* Catalog entries and keys.                                               *)
(***************************************************************************)
\* media_info tuples of media-vtt.py: (pubSymbol, track, formatCode, naturalKey).
MediaItems ==
  {[pubSymbol |-> "pubA", track |-> 1, formatCode |-> "VIDEO", naturalKey |-> "nkA1"],
   [pubSymbol |-> "pubA", track |-> 2, formatCode |-> "VIDEO", naturalKey |-> "nkA2"]}

\* Rows of SELECT DISTINCT IssueTagNumber, Symbol, KeySymbol (publications-jwpub.py).
Publications ==
  {[issue_tag_number |-> 0, symbol |-> "nwt", keysymbol |-> "nwt"],
   [issue_tag_number |-> 0, symbol |-> "nwt", keysymbol |-> "nwtsty"],
   [issue_tag_number |-> 202401, symbol |-> "w24", keysymbol |-> "w"]}

\* The columns of the UNIQUE / PRIMARY KEY constraint of the state table.
VttKey(e) == <<e.pubSymbol, e.track, e.formatCode>>
JwKey(e) == <<e.issue_tag_number, e.symbol>>

VttKeys == {VttKey(e) : e \in MediaItems}
JwKeys == {JwKey(e) : e \in Publications}

Injective(s) == \A i, j \in DOMAIN s : s[i] = s[j] => i = j

VttCatalogs == UNION {[1..n -> MediaItems] : n \in 1..CatalogLen}
JwCatalogs == {c \in [1..CatalogLen -> Publications] : Injective(c)}

(***************************************************************************)
(* The state table.                                                        *)
(***************************************************************************)
RECURSIVE Filter(_, _)
Filter(rows, key) ==   \* the rows whose key columns differ from key
  IF rows = <<>> THEN <<>>
  ELSE IF Head(rows).key = key THEN Filter(Tail(rows), key)
       ELSE <<Head(rows)>> \o Filter(Tail(rows), key)

RowsOf(rows, key) == {i \in DOMAIN rows : rows[i].key = key}

\* A plain INSERT: the conflicting row stays.
InsertOnly(rows, key, url, st) ==
  rows \o <<[key |-> key, url |-> url, status |-> st]>>

\* A REPLACE of the whole table: every earlier row is deleted.
ReplaceWholeTable(rows, key, url, st) ==
  <<[key |-> key, url |-> url, status |-> st]>>

\* INSERT OR REPLACE: the conflicting row is deleted, the new row is added.
InsertOrReplace(rows, key, url, st) ==
  Filter(rows, key) \o <<[key |-> key, url |-> url, status |-> st]>>

\* SELECT status ... WHERE key; fetchone(): the first matching row, or None.
SelectStatus(rows, key) ==
  IF RowsOf(rows, key) = {} THEN None
  ELSE rows[CHOOSE i \in RowsOf(rows, key) : \A j \in RowsOf(rows, key) : i <= j].status

\* is_vtt_processed: the stored status, or None when the statement raises.
LookupAbsentAsFailed(rows, key, raises) ==
  IF raises THEN None
  ELSE IF RowsOf(rows, key) = {} THEN "failed" ELSE SelectStatus(rows, key)

is_vtt_processed(rows, key, raises) ==
  IF raises THEN None ELSE SelectStatus(rows, key)

\* mark_vtt_as_downloaded: the table afterwards; a raised error is logged only.
MarkWithoutUrl(rows, key, url, st, raises) ==
  IF raises THEN rows ELSE InsertOrReplace(rows, key, None, st)

mark_vtt_as_downloaded(rows, key, url, st, raises) ==
  IF raises THEN rows ELSE InsertOrReplace(rows, key, url, st)

(***************************************************************************)
(* Network outcomes.                                                       *)
(***************************************************************************)
\* What one requests.get(url, stream=True) + raise_for_status + file write ends in:
\*   "ok"               the body was written to the file
\*   "ConnectionError"  a transient requests exception (network, 5xx status)
\*   "MissingSchema"    requests rejects the URL itself (malformed URL)
\*   "OSError"          the file write fails: not a requests exception
FetchResults == {"ok", "ConnectionError", "MissingSchema", "OSError"}

\* The classes caught by `except requests.exceptions.RequestException`.
RequestExceptions == {"ConnectionError", "MissingSchema"}

TransientErrors == {"ConnectionError"}

Ev(op, what, n) == [op |-> op, what |-> what, n |-> n]

FetchEvents(evs) == SelectSeq(evs, LAMBDA e : e.op = "fetch")

\* A URL is malformed or not: once one GET of this entry has answered, the
\* later ones of the same entry agree on MissingSchema.
PossibleFetchResults(evs) ==
  IF FetchEvents(evs) = <<>> THEN FetchResults
  ELSE IF FetchEvents(evs)[1].what = "MissingSchema" THEN {"MissingSchema"}
       ELSE FetchResults \ {"MissingSchema"}

RECURSIVE Pow(_, _)
Pow(b, n) == IF n = 0 THEN 1 ELSE b * Pow(b, n - 1)

VttWaitFromZero(count) == Pow(VttBackoffBase, count - 1)

\* wait_time = 2 ** retry_count (media-vtt.py line 223)
VttWait(count) == Pow(VttBackoffBase, count)

(***************************************************************************)
(* media-vtt.py: download_vtt_files.                                       *)
(***************************************************************************)
Unset == ShapedResponse("unset", PlainTitle, <<>>, <<>>)

\* The responses the pipeline is run against: every response of AllResponses
\* for a catalog of one entry; for longer catalogs, where the responses of the
\* keys multiply, the responses with at most one descriptor.
PipeDescriptors ==
  [shape : {"map"}, title : Titles, subtitles : {"absent", None, "https://cdn/a.vtt"}]

PipeResponses == ResponsesOver(PipeDescriptors, 1)

ApiResponses(cat) == IF Len(cat) = 1 THEN AllResponses ELSE PipeResponses

ZeroCount(keys) == [k \in keys |-> 0]

Snapshot(rows, keys) == [k \in keys |-> SelectStatus(rows, k)]

\* `continue` / falling off the loop body: the next entry, or the end of the run.
NextEntry ==
  /\ idx' = idx + 1
  /\ pc' = IF idx + 1 > Len(catalog) THEN "done" ELSE "start"

SkipsOnlySuccess(st) == st = "success"

\* The statuses for which the loop body does `continue` (lines 155-160).
VttSkips(st) == st \in {"success", "failed"}

\* Lines 152-162: the loop head, the status lookup and the skip check.
VttBegin ==
  /\ prog = "vtt" /\ pc = "start"
  /\ \E raises \in BOOLEAN :
       LET k == VttKey(catalog[idx])
           st == is_vtt_processed(db, k, raises)
       IN  /\ status' = st
           /\ dbFault' = IF raises THEN dbFault \cup {"read"} ELSE dbFault
           /\ IF VttSkips(st)
              THEN NextEntry /\ UNCHANGED nAttempt
              ELSE /\ pc' = "resolve" /\ idx' = idx
                   /\ nAttempt' = [nAttempt EXCEPT ![k] = @ + 1]
  /\ events' = <<>>
  /\ asset_url' = None /\ retry_count' = 0 /\ wait_time' = 0
  /\ UNCHANGED <<interrupted, other, lines, media_info, prog, catalog, run,
                 db, api, startStatus, resolved, fetched, written,
                 media_links, resolution>>

\* Lines 163-198 and 237-246: the API call, the scan and the writes that need
\* no fetch.
VttResolve ==
  /\ prog = "vtt" /\ pc = "resolve"
  /\ LET k == VttKey(catalog[idx]) IN
     \E links \in (IF api[k] = Unset THEN ApiResponses(catalog) ELSE {api[k]}) :
       LET r == Resolve(links) IN
       /\ api' = [api EXCEPT ![k] = links]
       /\ resolved' = resolved \cup {k}
       /\ CASE r.outcome = "raise" ->
                 /\ pc' = "crashed" /\ idx' = idx
                 /\ events' = Append(events, Ev("resolve", "raise", 0))
                 /\ UNCHANGED <<db, written, dbFault, asset_url>>
            [] r.outcome = "fetch" ->
                 /\ pc' = "fetch" /\ idx' = idx
                 /\ asset_url' = r.url
                 /\ events' = Append(events, Ev("resolve", "fetch", 0))
                 /\ UNCHANGED <<db, written, dbFault>>
            [] OTHER ->
                 \E raises \in BOOLEAN :
                   /\ db' = mark_vtt_as_downloaded(db, k, None, r.outcome, raises)
                   /\ written' = written \cup {k}
                   /\ dbFault' = IF raises THEN dbFault \cup {"write"} ELSE dbFault
                   /\ events' = events \o <<Ev("resolve", r.outcome, 0),
                                            Ev("mark", r.outcome, 0)>>
                   /\ asset_url' = None
                   /\ NextEntry
  /\ UNCHANGED <<interrupted, other, lines, media_info, prog, catalog, run,
                 status, retry_count, wait_time, startStatus, fetched,
                 nAttempt, media_links, resolution>>

\* Lines 201-235: one iteration of the retry loop.
VttFetch ==
  /\ prog = "vtt" /\ pc = "fetch" /\ retry_count < VttMaxRetries
  /\ LET k == VttKey(catalog[idx]) IN
     \E res \in PossibleFetchResults(events), raises \in BOOLEAN :
       /\ fetched' = fetched \cup {k}
       /\ CASE res = "ok" ->                       \* lines 203-216
                 /\ db' = mark_vtt_as_downloaded(db, k, asset_url, "success", raises)
                 /\ written' = written \cup {k}
                 /\ dbFault' = IF raises THEN dbFault \cup {"write"} ELSE dbFault
                 /\ events' = events \o <<Ev("fetch", res, 0), Ev("mark", "success", 0)>>
                 /\ UNCHANGED <<retry_count, wait_time>>
                 /\ NextEntry
            [] res \in RequestExceptions /\ retry_count + 1 < VttMaxRetries ->
                 /\ raises = FALSE                 \* lines 218-225
                 /\ retry_count' = retry_count + 1
                 /\ wait_time' = VttWait(retry_count + 1)
                 /\ events' = Append(events, Ev("fetch", res, 0))
                 /\ pc' = "sleep" /\ idx' = idx
                 /\ UNCHANGED <<db, written, dbFault>>
            [] res \in RequestExceptions /\ retry_count + 1 >= VttMaxRetries ->
                 /\ retry_count' = retry_count + 1 \* lines 218-229
                 /\ db' = mark_vtt_as_downloaded(db, k, asset_url, "failed", raises)
                 /\ written' = written \cup {k}
                 /\ dbFault' = IF raises THEN dbFault \cup {"write"} ELSE dbFault
                 /\ events' = events \o <<Ev("fetch", res, 0), Ev("mark", "failed", 0)>>
                 /\ UNCHANGED wait_time
                 /\ NextEntry
            [] OTHER ->                            \* lines 230-235
                 /\ db' = mark_vtt_as_downloaded(db, k, asset_url, "failed", raises)
                 /\ written' = written \cup {k}
                 /\ dbFault' = IF raises THEN dbFault \cup {"write"} ELSE dbFault
                 /\ events' = events \o <<Ev("fetch", res, 0), Ev("mark", "failed", 0)>>
                 /\ UNCHANGED <<retry_count, wait_time>>
                 /\ NextEntry
  /\ UNCHANGED <<interrupted, other, lines, media_info, prog, catalog, run,
                 api, status, asset_url, startStatus, resolved, nAttempt,
                 media_links, resolution>>

\* time.sleep(wait_time) between two attempts (lines 225 and jwpub 232-233).
Sleep ==
  /\ pc = "sleep"
  /\ events' = Append(events, Ev("sleep", "", wait_time))
  /\ wait_time' = IF prog = "jwpub" THEN wait_time * JwBackoffFactor ELSE wait_time
  /\ pc' = IF prog = "jwpub" THEN "attempt" ELSE "fetch"
  /\ UNCHANGED <<interrupted, other, lines, media_info, prog, catalog, run,
                 idx, db, api, status, asset_url, retry_count, startStatus,
                 resolved, fetched, written, nAttempt, dbFault, media_links,
                 resolution>>

\* The process is killed (signal, power loss) while an entry is between its
\* skip check and the write of its row: nothing of the entry is in the table,
\* whatever was or was not written to the output file.
Interrupt ==
  /\ prog \in {"vtt", "jwpub"}
  /\ pc \in {"resolve", "fetch", "sleep", "attempt"}
  /\ pc' = "killed"
  /\ interrupted' =
       LET k == IF prog = "vtt" THEN VttKey(catalog[idx]) ELSE JwKey(catalog[idx])
       IN  IF RowsOf(db, k) = {} THEN {k} ELSE {}
  /\ UNCHANGED <<prog, catalog, run, idx, db, api, status, asset_url, retry_count,
                 wait_time, events, startStatus, resolved, fetched, written,
                 nAttempt, dbFault, media_links, resolution, other, lines,
                 media_info>>

\* The script is started again: state survives in the table only.
NewRun ==
  /\ prog \in {"vtt", "jwpub", "main"}
  /\ pc \in {"done", "crashed", "killed"}
  /\ run' = "later"
  /\ idx' = 1 /\ pc' = "start"
  /\ status' = None /\ asset_url' = None /\ retry_count' = 0 /\ wait_time' = 0
  /\ events' = <<>>
  /\ startStatus' = Snapshot(db, DOMAIN startStatus)
  /\ resolved' = {}
  /\ fetched' = {}
  /\ written' = {}
  /\ nAttempt' = ZeroCount(DOMAIN nAttempt)
  /\ dbFault' = {}
  /\ interrupted' = IF pc = "killed" THEN interrupted ELSE {}
  /\ UNCHANGED <<prog, catalog, db, api, media_links, resolution, other, lines,
                 media_info>>

\* The ingestion has not run.
NotIngested == [vtt |-> <<>>, media |-> <<>>, main |-> <<>>, state |-> "unset"]

\* No second process.
NoWorker == [pc |-> "absent"]

InitRun(p, cat, keys) ==
  /\ prog = p /\ catalog = cat
  /\ run = "first" /\ idx = 1 /\ pc = "start"
  /\ db = <<>>
  /\ api = [k \in keys |-> Unset]
  /\ status = None /\ asset_url = None /\ retry_count = 0 /\ wait_time = 0
  /\ events = <<>>
  /\ startStatus = [k \in keys |-> None]
  /\ resolved = {} /\ fetched = {} /\ written = {}
  /\ nAttempt = ZeroCount(keys)
  /\ dbFault = {}
  /\ media_links = Unset
  /\ resolution = [outcome |-> "unset", url |-> None]
  /\ interrupted = {} /\ other = NoWorker
  /\ lines = <<>> /\ media_info = NotIngested

VttInit == \E cat \in VttCatalogs : InitRun("vtt", cat, VttKeys)

(***************************************************************************)
(* publications-jwpub.py: download_jwpubs.                                 *)
(***************************************************************************)
\* The link-resolution URL (lines 168-171): the API is asked for KeySymbol and
\* issue when the issue tag number is not 0, for Symbol alone otherwise.
JwLinksUrl(e) ==
  IF e.issue_tag_number # 0
  THEN [pub |-> e.keysymbol, issue |-> e.issue_tag_number]
  ELSE [pub |-> e.symbol, issue |-> 0]

\* What lines 181-196 end in:
\*   "ConnectionError"  requests.get / raise_for_status raises
\*   "nofiles"          no JWPUB list under files[JW_LANG]
\*   "notmap"           metadata is not an object: AttributeError
\*   "nourl"            files[0] has no file/url: KeyError
\*   "ok"               download_url is set
JwLinkResults == {"ConnectionError", "nofiles", "notmap", "nourl", "ok"}

JwDownloadUrl == "https://cdn/x.jwpub"

\* The skip check of lines 163-165.
JwSkips(st) == st = "processed"

\* cursor_state.execute(INSERT OR REPLACE ...) + commit; the row's `url`
\* column stands for KeySymbol here.
JwWrite(rows, e, st, raises) ==
  IF raises THEN rows ELSE InsertOrReplace(rows, JwKey(e), e.keysymbol, st)

\* Lines 157-176: the loop head, the state lookup and the skip check.  A lookup
\* that raises is caught at line 250: the loop continues with the next row.
JwBegin ==
  /\ prog = "jwpub" /\ pc = "start"
  /\ \E raises \in BOOLEAN :
       LET k == JwKey(catalog[idx])
           st == IF raises THEN None ELSE SelectStatus(db, k)
       IN  /\ status' = st
           /\ dbFault' = IF raises THEN dbFault \cup {"read"} ELSE dbFault
           /\ IF raises \/ JwSkips(st)
              THEN NextEntry /\ UNCHANGED nAttempt
              ELSE /\ pc' = "attempt" /\ idx' = idx
                   /\ nAttempt' = [nAttempt EXCEPT ![k] = @ + 1]
  /\ events' = <<>>
  /\ asset_url' = None /\ retry_count' = 0 /\ wait_time' = JwInitialWait
  /\ UNCHANGED <<interrupted, other, lines, media_info, prog, catalog, run,
                 db, api, startStatus, resolved, fetched, written,
                 media_links, resolution>>

\* `except Exception` (lines 241-249): write 'failed' and leave the retry loop;
\* a write that raises there is caught at line 250.
JwOnException(evs, writes) ==
  \E raises \in BOOLEAN :
    /\ db' = JwWrite(db, catalog[idx], "failed", raises)
    /\ written' = written \cup {JwKey(catalog[idx])}
    /\ dbFault' = IF raises \/ writes > 0 THEN dbFault \cup {"write"} ELSE dbFault
    /\ events' = evs \o <<Ev("mark", "failed", 0)>>
    /\ UNCHANGED <<retry_count, wait_time>>
    /\ NextEntry

\* A terminal write inside the try block (lines 189-194, 219-225): when it
\* raises, the sqlite error is handled by `except Exception`.
JwTerminalWrite(evs, st) ==
  \/ /\ db' = JwWrite(db, catalog[idx], st, FALSE)
     /\ written' = written \cup {JwKey(catalog[idx])}
     /\ events' = evs \o <<Ev("mark", st, 0)>>
     /\ UNCHANGED <<retry_count, wait_time, dbFault>>
     /\ NextEntry
  \/ JwOnException(evs, 1)

\* `except requests.exceptions.RequestException` (lines 226-240).
JwOnRequestException(evs) ==
  IF retry_count + 1 < JwMaxRetries
  THEN /\ retry_count' = retry_count + 1
       /\ events' = evs
       /\ pc' = "sleep" /\ idx' = idx
       /\ UNCHANGED <<db, written, dbFault, wait_time>>
  ELSE \E raises \in BOOLEAN :
         /\ retry_count' = retry_count + 1
         /\ db' = JwWrite(db, catalog[idx], "failed", raises)
         /\ written' = written \cup {JwKey(catalog[idx])}
         /\ dbFault' = IF raises THEN dbFault \cup {"write"} ELSE dbFault
         /\ events' = evs \o <<Ev("mark", "failed", 0)>>
         /\ UNCHANGED wait_time
         /\ NextEntry

\* Lines 178-196: the head of one iteration of the retry loop, up to download_url.
JwResolveLinks ==
  /\ prog = "jwpub" /\ pc = "attempt" /\ retry_count < JwMaxRetries
  /\ resolved' = resolved \cup {JwKey(catalog[idx])}
  /\ \E res \in JwLinkResults :
       LET evs == Append(events, Ev("resolve", res, 0)) IN
       CASE res = "ok" ->
              /\ asset_url' = JwDownloadUrl
              /\ events' = evs
              /\ pc' = "fetch" /\ idx' = idx
              /\ UNCHANGED <<db, written, dbFault, retry_count, wait_time>>
         [] res = "nofiles" -> JwTerminalWrite(evs, "no_jwpub") /\ UNCHANGED asset_url
         [] res = "ConnectionError" -> JwOnRequestException(evs) /\ UNCHANGED asset_url
         [] OTHER -> JwOnException(evs, 0) /\ UNCHANGED asset_url
  /\ UNCHANGED <<interrupted, other, lines, media_info, prog, catalog, run,
                 api, status, startStatus, fetched, nAttempt, media_links,
                 resolution>>

\* Lines 198-225: the rest of the iteration, from the GET of download_url.
JwDownload ==
  /\ prog = "jwpub" /\ pc = "fetch"
  /\ fetched' = fetched \cup {JwKey(catalog[idx])}
  /\ \E res \in PossibleFetchResults(events) :
       LET evs == Append(events, Ev("fetch", res, 0)) IN
       CASE res = "ok" -> JwTerminalWrite(evs, "processed")
         [] res \in RequestExceptions -> JwOnRequestException(evs)
         [] OTHER -> JwOnException(evs, 0)
  /\ UNCHANGED <<interrupted, other, lines, media_info, prog, catalog, run,
                 api, status, asset_url, startStatus, resolved, nAttempt,
                 media_links, resolution>>

JwInit == \E cat \in JwCatalogs : InitRun("jwpub", cat, JwKeys)

(***************************************************************************)
(* main.py: process_json_file and fetch_and_download_media.                *)
(***************************************************************************)
\* The media-item entries of main.py: languageAgnosticNaturalKey,
\* primaryCategory, formatCode (lines 143-146).
MainItems ==
  { [language_agnostic_key |-> "lankA", primary_category |-> "Video",
     format_code |-> "VIDEO"],
    [language_agnostic_key |-> "lankB", primary_category |-> "Audio",
     format_code |-> "AUDIO"] }

MainKey(e) == e.language_agnostic_key

MainKeys == {MainKey(e) : e \in MainItems}

MainCatalogs == UNION {[1..n -> MainItems] : n \in 1..CatalogLen}

\* is_processed (lines 41-49): no handler, a storage error propagates.
is_processed(rows, key) == SelectStatus(rows, key) = "downloaded"

\* mark_processed (lines 52-61).
mark_processed(rows, key, url) == InsertOrReplace(rows, key, url, "downloaded")

\* What lines 88-108 end in:
\*   "connect_fail"  firefox.connect or new_page raises: `page` is never bound
\*   "goto_fail"     page.goto or a query raises
\*   "notag"         no video/audio tag, or the tag has no src
\*   "ok"            download_url is set
MainPageResults == {"connect_fail", "goto_fail", "notag", "ok"}

MainDownloadUrl == "https://cdn/m.mp4"

MarkThenDownload(res) ==
  <<Ev("mark", "downloaded", 0), Ev("fetch", res, 0)>>

\* The calls of lines 116-122 in the order the code makes them, the GET and
\* the file copy having ended in res = "ok".
DownloadThenMark(res) ==
  <<Ev("fetch", res, 0), Ev("mark", "downloaded", 0)>>

\* Lines 139-149: the loop head and the is_processed check.  A lookup that
\* raises is caught at line 154, outside the loop: the loop is abandoned.
MainBegin ==
  /\ prog = "main" /\ pc = "start"
  /\ \E raises \in BOOLEAN :
       LET k == MainKey(catalog[idx]) IN
       /\ dbFault' = IF raises THEN dbFault \cup {"read"} ELSE dbFault
       /\ IF raises
          THEN /\ pc' = "crashed" /\ idx' = idx
               /\ UNCHANGED <<status, nAttempt>>
          ELSE /\ status' = SelectStatus(db, k)
               /\ IF is_processed(db, k)
                  THEN NextEntry /\ UNCHANGED nAttempt
                  ELSE /\ pc' = "resolve" /\ idx' = idx
                       /\ nAttempt' = [nAttempt EXCEPT ![k] = @ + 1]
  /\ events' = <<>>
  /\ asset_url' = None
  /\ UNCHANGED <<interrupted, other, lines, media_info, prog, catalog, run, db,
                 api, retry_count, wait_time, startStatus, resolved, fetched,
                 written, media_links, resolution>>

\* Lines 86-108 and 123-130: the browser session up to download_url.  When
\* `page` was never bound, page.close() in the finally block raises
\* UnboundLocalError, which leaves the function and ends the loop (line 154).
MainResolve ==
  /\ prog = "main" /\ pc = "resolve"
  /\ resolved' = resolved \cup {MainKey(catalog[idx])}
  /\ \E res \in MainPageResults :
       /\ events' = Append(events, Ev("resolve", res, 0))
       /\ CASE res = "ok" ->
                 /\ asset_url' = MainDownloadUrl
                 /\ pc' = "fetch" /\ idx' = idx
            [] res = "connect_fail" ->
                 /\ pc' = "crashed" /\ idx' = idx
                 /\ UNCHANGED asset_url
            [] OTHER -> NextEntry /\ UNCHANGED asset_url
  /\ UNCHANGED <<interrupted, other, lines, media_info, prog, catalog, run, db,
                 api, status, retry_count, wait_time, startStatus, fetched,
                 written, nAttempt, dbFault, media_links, resolution>>

\* Lines 110-127: the GET, the copy to the file and mark_processed; every
\* exception is logged at line 126 and the entry is left without a row.
MainFetch ==
  /\ prog = "main" /\ pc = "fetch"
  /\ fetched' = fetched \cup {MainKey(catalog[idx])}
  /\ \E res \in FetchResults, raises \in BOOLEAN :
       IF res = "ok"
       THEN /\ events' = events \o DownloadThenMark(res)
            /\ written' = written \cup {MainKey(catalog[idx])}
            /\ db' = IF raises THEN db
                     ELSE mark_processed(db, MainKey(catalog[idx]), asset_url)
            /\ dbFault' = IF raises THEN dbFault \cup {"write"} ELSE dbFault
       ELSE /\ raises = FALSE
            /\ events' = Append(events, Ev("fetch", res, 0))
            /\ UNCHANGED <<db, written, dbFault>>
  /\ NextEntry
  /\ UNCHANGED <<interrupted, other, lines, media_info, prog, catalog, run, api,
                 status, asset_url, retry_count, wait_time, startStatus,
                 resolved, nAttempt, media_links, resolution>>

MainInit == \E cat \in MainCatalogs : InitRun("main", cat, MainKeys)

(***************************************************************************)
(* The selection scan on its own: one response in, one decision out.       *)
(***************************************************************************)
ResolveInit ==
  /\ prog = "resolve" /\ catalog = <<>>
  /\ run = "first" /\ idx = 1 /\ pc = "start"
  /\ db = <<>> /\ api = <<>>
  /\ status = None /\ asset_url = None /\ retry_count = 0 /\ wait_time = 0
  /\ events = <<>>
  /\ startStatus = <<>> /\ resolved = {} /\ fetched = {} /\ written = {}
  /\ nAttempt = <<>>
  /\ dbFault = {}
  /\ media_links \in AllResponses
  /\ resolution = [outcome |-> "unset", url |-> None]
  /\ interrupted = {} /\ other = NoWorker
  /\ lines = <<>> /\ media_info = NotIngested

ApplyResolve ==
  /\ prog = "resolve" /\ resolution.outcome = "unset"
  /\ resolution' = Resolve(media_links)
  /\ UNCHANGED <<interrupted, other, lines, media_info, prog, catalog, run,
                 idx, pc, db, api, status, asset_url, retry_count, wait_time,
                 events, startStatus, resolved, fetched, written, nAttempt,
                 dbFault, media_links>>

(***************************************************************************)
(* Catalog ingestion: extract_media_info (media-vtt.py, media.py) and the  *)
(* line loop of process_json_file (main.py).                               *)
(***************************************************************************)
\* A line of the catalog file.  kind:
\*   "badjson"  json.loads raises
\*   "notype"   a JSON object without 'type': item['type'] raises KeyError
\*   "other"    'type' is not 'media-item'
\*   "item"     a media-item; a field is None when the line does not carry it
\* keyParts.get('track') of a line without a track: Python None, written as
\* an integer that is no track number.
NoTrack == -1

NonItemLine(kind) ==
  [kind |-> kind, pubSymbol |-> None, track |-> NoTrack, formatCode |-> None,
   naturalKey |-> None]

ItemLines ==
  [kind : {"item"}, pubSymbol : {None, "pubA"}, track : {NoTrack, 0, 1},
   formatCode : {None, "VIDEO"}, naturalKey : {None, "nkA1"}]

CatalogLines == {NonItemLine(k) : k \in {"badjson", "notype", "other"}} \cup ItemLines

CatalogFiles == UNION {[1..n -> CatalogLines] : n \in 0..MaxLines}

\* Python truthiness of a string field: None and "" are false.
Truthy(v) == v # None /\ v # ""

KeepsWithoutNaturalKey(l) ==
  Truthy(l.pubSymbol) /\ l.track # NoTrack /\ Truthy(l.formatCode)

\* media-vtt.py line 123.
KeepsVtt(l) ==
  Truthy(l.pubSymbol) /\ l.track # NoTrack /\ Truthy(l.formatCode)
    /\ Truthy(l.naturalKey)

\* media-vtt.py line 124: the tuple appended to media_info.
VttTuple(l) ==
  [pubSymbol |-> l.pubSymbol, track |-> l.track, formatCode |-> l.formatCode,
   naturalKey |-> l.naturalKey]

\* media-vtt.py lines 108-129.  The try block encloses the whole loop: the
\* first line that raises ends the loop and what was collected is returned.
RECURSIVE extract_media_info(_, _)
extract_media_info(ls, i) ==
  IF i > Len(ls) THEN <<>>
  ELSE CASE ls[i].kind \in {"badjson", "notype"} -> <<>>
         [] ls[i].kind = "other" -> extract_media_info(ls, i + 1)
         [] OTHER ->
              IF KeepsVtt(ls[i])
              THEN <<VttTuple(ls[i])>> \o extract_media_info(ls, i + 1)
              ELSE extract_media_info(ls, i + 1)

\* media.py lines 86-106: the same loop, without naturalKey.
RECURSIVE media_extract_media_info(_, _)
media_extract_media_info(ls, i) ==
  IF i > Len(ls) THEN <<>>
  ELSE CASE ls[i].kind \in {"badjson", "notype"} -> <<>>
         [] ls[i].kind = "other" -> media_extract_media_info(ls, i + 1)
         [] OTHER ->
              IF KeepsWithoutNaturalKey(ls[i])
              THEN <<[VttTuple(ls[i]) EXCEPT !.naturalKey = None]>>
                     \o media_extract_media_info(ls, i + 1)
              ELSE media_extract_media_info(ls, i + 1)

\* main.py lines 139-152: the entries the loop of process_json_file hands to
\* is_processed.  o['languageAgnosticNaturalKey'] (the naturalKey field here)
\* and o['keyParts']['formatCode'] are subscripted: a missing one raises
\* KeyError, caught at line 154 outside the loop.
RECURSIVE process_json_file(_, _)
process_json_file(ls, i) ==
  IF i > Len(ls) THEN <<>>
  ELSE CASE ls[i].kind \in {"badjson", "notype"} -> <<>>
         [] ls[i].kind = "other" -> process_json_file(ls, i + 1)
         [] OTHER ->
              IF ls[i].naturalKey = None \/ ls[i].formatCode = None
              THEN <<>>
              ELSE <<VttTuple(ls[i])>> \o process_json_file(ls, i + 1)

IngestInit ==
  /\ prog = "ingest" /\ catalog = <<>>
  /\ run = "first" /\ idx = 1 /\ pc = "start"
  /\ db = <<>> /\ api = <<>>
  /\ status = None /\ asset_url = None /\ retry_count = 0 /\ wait_time = 0
  /\ events = <<>>
  /\ startStatus = <<>> /\ resolved = {} /\ fetched = {} /\ written = {}
  /\ nAttempt = <<>>
  /\ dbFault = {}
  /\ media_links = Unset
  /\ resolution = [outcome |-> "unset", url |-> None]
  /\ interrupted = {} /\ other = NoWorker
  /\ lines \in CatalogFiles
  /\ media_info = NotIngested

ApplyIngest ==
  /\ prog = "ingest" /\ media_info.state = "unset"
  /\ media_info' = [vtt |-> extract_media_info(lines, 1),
                    media |-> media_extract_media_info(lines, 1),
                    main |-> process_json_file(lines, 1),
                    state |-> "done"]
  /\ UNCHANGED <<prog, catalog, run, idx, pc, db, api, status, asset_url,
                 retry_count, wait_time, events, startStatus, resolved, fetched,
                 written, nAttempt, dbFault, media_links, resolution,
                 interrupted, other, lines>>

(***************************************************************************)
(* Two processes of media-vtt.py over the same catalog and the same table. *)
(* One process runs on the variables above; the locals of the other are    *)
(* parked in `other`, and a context switch exchanges the two.              *)
(***************************************************************************)
Locals ==
  [pc |-> pc, idx |-> idx, status |-> status, asset_url |-> asset_url,
   retry_count |-> retry_count, wait_time |-> wait_time, events |-> events,
   resolved |-> resolved, fetched |-> fetched, written |-> written,
   nAttempt |-> nAttempt]

\* The operating system runs the other process: sqlite serialises the
\* statements, nothing else orders the two loops.
Switch ==
  /\ other.pc # "absent"
  /\ other' = Locals
  /\ pc' = other.pc /\ idx' = other.idx /\ status' = other.status
  /\ asset_url' = other.asset_url /\ retry_count' = other.retry_count
  /\ wait_time' = other.wait_time /\ events' = other.events
  /\ resolved' = other.resolved /\ fetched' = other.fetched
  /\ written' = other.written /\ nAttempt' = other.nAttempt
  /\ UNCHANGED <<prog, catalog, run, db, api, startStatus, dbFault, media_links,
                 resolution, interrupted, lines, media_info>>

WorkersInit ==
  /\ prog = "vtt" /\ catalog \in VttCatalogs
  /\ run = "first" /\ idx = 1 /\ pc = "start"
  /\ db = <<>>
  /\ api = [k \in VttKeys |-> Unset]
  /\ status = None /\ asset_url = None /\ retry_count = 0 /\ wait_time = 0
  /\ events = <<>>
  /\ startStatus = [k \in VttKeys |-> None]
  /\ resolved = {} /\ fetched = {} /\ written = {}
  /\ nAttempt = ZeroCount(VttKeys)
  /\ dbFault = {}
  /\ media_links = Unset
  /\ resolution = [outcome |-> "unset", url |-> None]
  /\ interrupted = {}
  /\ other = Locals
  /\ lines = <<>> /\ media_info = NotIngested

WorkersNext == VttBegin \/ VttResolve \/ VttFetch \/ Sleep \/ Switch

(***************************************************************************)
(* Strings.  Where the text of a value matters (file names, the pub        *)
(* parameter of a lookup URL) a string is the sequence of its characters.  *)
(***************************************************************************)
Digits == <<"0", "1", "2", "3", "4", "5", "6", "7", "8", "9">>

\* str(n) of a non-negative int: its decimal digits.
RECURSIVE Str(_)
Str(n) ==
  IF n < 10 THEN <<Digits[n + 1]>>
  ELSE Str(n \div 10) \o <<Digits[(n % 10) + 1]>>

StringsOver(chars) == UNION {[1..n -> chars] : n \in 0..MaxSymLen}

\* str.startswith(prefix)
StartsWith(str, prefix) ==
  Len(prefix) <= Len(str) /\ SubSeq(str, 1, Len(prefix)) = prefix

\* a or b, on strings: a when it is not empty, else b.
PyOr(a, b) == IF a # <<>> THEN a ELSE b

(***************************************************************************)
(* File naming of download_jwpubs (publications-jwpub.py, lines 203-211),  *)
(* for two rows of the Publication table.                                  *)
(***************************************************************************)
NameChars == {"w", "_", "1"}

NamedPublications ==
  [issue_tag_number : {0, 1, 11}, symbol : StringsOver(NameChars),
   keysymbol : {<<"w">>, <<"n", "w", "t">>}]

\* The Content-Disposition header of the file response:
\*   "absent"  no such header (headers.get gives '')
\*   "empty"   holds filename= but the pattern filename="?([^"]+)"? finds nothing
\*   "named"   the pattern finds a name
HeaderKinds == {"absent", "empty", "named"}

HeaderName == <<"x", ".", "j", "w", "p", "u", "b">>

\* Line 211 with the separator left out.
NameWithoutSeparator(symbol, issue_tag_number) ==
  symbol \o Str(issue_tag_number) \o <<".", "j", "w", "p", "u", "b">>

\* Line 211: f"{symbol}_{issue_tag_number}.jwpub"
FallbackName(symbol, issue_tag_number) ==
  symbol \o <<"_">> \o Str(issue_tag_number) \o <<".", "j", "w", "p", "u", "b">>

\* Lines 203-211: the name from the header, or the constructed one.
JwFileName(e, header) ==
  IF header = "named" THEN [fallback |-> FALSE, name |-> HeaderName]
  ELSE [fallback |-> TRUE, name |-> FallbackName(e.symbol, e.issue_tag_number)]

NamesInit ==
  /\ prog = "names" /\ catalog \in [1..2 -> NamedPublications]
  /\ run = "first" /\ idx = 1 /\ pc = "start"
  /\ db = <<>> /\ api = <<>>
  /\ status = None /\ asset_url = None /\ retry_count = 0 /\ wait_time = 0
  /\ events = <<>>
  /\ startStatus = <<>> /\ resolved = {} /\ fetched = {} /\ written = {}
  /\ nAttempt = <<>>
  /\ dbFault = {}
  /\ media_links = Unset
  /\ resolution = [outcome |-> "unset", url |-> None]
  /\ interrupted = {} /\ other = NoWorker
  /\ lines = <<>> /\ media_info = NotIngested

ApplyNames ==
  /\ prog = "names" /\ media_info.state = "unset"
  /\ \E h \in [1..2 -> HeaderKinds] :
       media_info' = [state |-> "done",
                      names |-> [i \in 1..2 |-> JwFileName(catalog[i], h[i])]]
  /\ UNCHANGED <<prog, catalog, run, idx, pc, db, api, status, asset_url,
                 retry_count, wait_time, events, startStatus, resolved, fetched,
                 written, nAttempt, dbFault, media_links, resolution,
                 interrupted, other, lines>>

(***************************************************************************)
(* The lookup URL of publications.py (lines 76-81), for one row of the     *)
(* Publication table.                                                      *)
(***************************************************************************)
KeyChars == {"w", "g", "k", "m"}

LookupRows ==
  [issue_tag_number : {0, 1, 11, 202401}, symbol : StringsOver(KeyChars)]

\* Line 77: symbol[0] if symbol.startswith("w" or "g") else "km"
keysymbol_of(symbol) ==
  IF StartsWith(symbol, PyOr(<<"w">>, <<"g">>)) THEN <<symbol[1]>> ELSE <<"k", "m">>

\* Lines 78-81: the pub and issue parameters of the URL; an empty issue
\* stands for a URL without that parameter.
LookupQuery(symbol, issue_tag_number) ==
  IF issue_tag_number # 0
  THEN [pub |-> keysymbol_of(symbol), issue |-> Str(issue_tag_number)]
  ELSE [pub |-> symbol, issue |-> <<>>]

LookupInit ==
  /\ prog = "lookup" /\ catalog \in [1..1 -> LookupRows]
  /\ run = "first" /\ idx = 1 /\ pc = "start"
  /\ db = <<>> /\ api = <<>>
  /\ status = None /\ asset_url = None /\ retry_count = 0 /\ wait_time = 0
  /\ events = <<>>
  /\ startStatus = <<>> /\ resolved = {} /\ fetched = {} /\ written = {}
  /\ nAttempt = <<>>
  /\ dbFault = {}
  /\ media_links = Unset
  /\ resolution = [outcome |-> "unset", url |-> None]
  /\ interrupted = {} /\ other = NoWorker
  /\ lines = <<>> /\ media_info = NotIngested

ApplyLookup ==
  /\ prog = "lookup" /\ resolution.outcome = "unset"
  /\ resolution' =
       [outcome |-> "query",
        url |-> LookupQuery(catalog[1].symbol, catalog[1].issue_tag_number)]
  /\ UNCHANGED <<prog, catalog, run, idx, pc, db, api, status, asset_url,
                 retry_count, wait_time, events, startStatus, resolved, fetched,
                 written, nAttempt, dbFault, media_links, interrupted, other,
                 lines, media_info>>

(***************************************************************************)
(* The state store of media-vtt.py on its own: any sequence of             *)
(* mark_vtt_as_downloaded and is_vtt_processed calls on the table that     *)
(* setup_database creates.  `events` is the sequence of the mark calls     *)
(* made, `media_links` describes the last lookup and `status` is what it   *)
(* returned.                                                               *)
(***************************************************************************)
StoreStatuses == {"success", "no_subtitles"}

NoLookup == [op |-> "none", key |-> <<>>, raised |-> FALSE, at |-> 0]

StoreInit ==
  /\ prog = "store" /\ catalog = <<>>
  /\ run = "first" /\ idx = 1 /\ pc = "start"
  /\ db = <<>> /\ api = <<>>
  /\ status = None /\ asset_url = None /\ retry_count = 0 /\ wait_time = 0
  /\ events = <<>>
  /\ startStatus = <<>> /\ resolved = {} /\ fetched = {} /\ written = {}
  /\ nAttempt = <<>>
  /\ dbFault = {}
  /\ media_links = NoLookup
  /\ resolution = [outcome |-> "unset", url |-> None]
  /\ interrupted = {} /\ other = NoWorker
  /\ lines = <<>> /\ media_info = NotIngested

StoreMark ==
  /\ prog = "store" /\ Len(events) < MaxCalls
  /\ \E k \in VttKeys, u \in GoodUrls, st \in StoreStatuses, raises \in BOOLEAN :
       /\ db' = mark_vtt_as_downloaded(db, k, u, st, raises)
       /\ events' = Append(events, [key |-> k, url |-> u, status |-> st,
                                    raised |-> raises])
  /\ UNCHANGED <<prog, catalog, run, idx, pc, api, status, asset_url,
                 retry_count, wait_time, startStatus, resolved, fetched,
                 written, nAttempt, dbFault, media_links, resolution,
                 interrupted, other, lines, media_info>>

StoreLookup ==
  /\ prog = "store"
  /\ \E k \in VttKeys, raises \in BOOLEAN :
       /\ status' = is_vtt_processed(db, k, raises)
       /\ media_links' = [op |-> "lookup", key |-> k, raised |-> raises,
                          at |-> Len(events)]
  /\ UNCHANGED <<prog, catalog, run, idx, pc, db, api, asset_url, retry_count,
                 wait_time, events, startStatus, resolved, fetched, written,
                 nAttempt, dbFault, resolution, interrupted, other, lines,
                 media_info>>

(***************************************************************************)
(* One run of media-vtt.py or publications-jwpub.py, scheduled: the        *)
(* interpreter carries out the next statement whenever there is one.       *)
(* Every requests.get of the two scripts is made without `timeout`, so a   *)
(* request whose response never arrives does not return: the process stays *)
(* in the call.                                                            *)
(***************************************************************************)
PipelineInit == VttInit \/ JwInit

PipelineNext ==
  \/ VttBegin \/ VttResolve \/ VttFetch
  \/ JwBegin \/ JwResolveLinks \/ JwDownload
  \/ Sleep

\* requests.get(...) blocks for ever (media-vtt.py lines 141 and 203,
\* publications-jwpub.py lines 181 and 200).
Hang ==
  /\ prog \in {"vtt", "jwpub"}
  /\ pc \in {"resolve", "attempt", "fetch"}
  /\ pc' = "hung"
  /\ UNCHANGED <<prog, catalog, run, idx, db, api, status, asset_url, retry_count,
                 wait_time, events, startStatus, resolved, fetched, written,
                 nAttempt, dbFault, media_links, resolution, interrupted, other,
                 lines, media_info>>

(***************************************************************************)
(* Specifications.                                                         *)
(***************************************************************************)
Init == VttInit \/ JwInit \/ MainInit

Next ==
  \/ VttBegin \/ VttResolve \/ VttFetch
  \/ JwBegin \/ JwResolveLinks \/ JwDownload
  \/ MainBegin \/ MainResolve \/ MainFetch
  \/ Sleep \/ NewRun

Spec == Init /\ [][Next]_vars

\* The same runs, with the process killed at any point between the skip check
\* of an entry and the write of its row.
SpecCrash == Init /\ [][Next \/ Interrupt]_vars

SpecResolve == ResolveInit /\ [][ApplyResolve]_vars

SpecIngest == IngestInit /\ [][ApplyIngest]_vars

SpecWorkers == WorkersInit /\ [][WorkersNext]_vars

\* One run in which every call returns.
SpecFair == PipelineInit /\ [][PipelineNext]_vars /\ WF_vars(PipelineNext)

\* One run in which a request may never return.
SpecHang ==
  PipelineInit /\ [][PipelineNext \/ Hang]_vars /\ WF_vars(PipelineNext)

SpecLookup == LookupInit /\ [][ApplyLookup]_vars

SpecNames == NamesInit /\ [][ApplyNames]_vars

SpecStore == StoreInit /\ [][StoreMark \/ StoreLookup]_vars

(***************************************************************************)
(* Vocabulary of the properties.                                           *)
(***************************************************************************)
KeyOf(e) ==
  IF prog = "vtt" THEN VttKey(e) ELSE IF prog = "jwpub" THEN JwKey(e) ELSE MainKey(e)

Keys == DOMAIN startStatus

\* The catalog positions this run has taken up: those it has left behind and,
\* when an exception ended the run, the one it ended on.
Passed == {i \in DOMAIN catalog : i < idx}
TakenUp == {i \in DOMAIN catalog : i < idx \/ (i = idx /\ pc = "crashed")}

EntryOver == pc \in {"start", "done"}

TerminalStatuses ==
  {"success", "processed", "failed", "skipped", "no_subtitles", "no_jwpub"}

IsPrefix(a, b) == Len(a) <= Len(b) /\ \A i \in DOMAIN a : a[i] = b[i]

RetryEvents(evs) == SelectSeq(evs, LAMBDA e : e.op \in {"fetch", "sleep", "mark"})

\* Every attempt of the entry so far got to the asset GET and failed there
\* with a transient error.
OnlyTransientFailures(evs) ==
  /\ FetchEvents(evs) # <<>>
  /\ \A i \in DOMAIN evs :
       /\ evs[i].op = "fetch" => evs[i].what \in TransientErrors
       /\ evs[i].op = "resolve" => evs[i].what \in {"ok", "fetch"}

\* Attempts k .. max failing, a wait of 2^k after attempt k < max, then the
\* one 'failed' write.
RECURSIVE ExhaustedTrace(_, _)
ExhaustedTrace(k, max) ==
  <<Ev("fetch", "ConnectionError", 0)>>
  \o (IF k < max
      THEN <<Ev("sleep", "", Pow(2, k))>> \o ExhaustedTrace(k + 1, max)
      ELSE <<Ev("mark", "failed", 0)>>)

MaxRetriesOfProg == IF prog = "vtt" THEN VttMaxRetries ELSE JwMaxRetries

ScanOrder(links) == links.MP4 \o links.MP3

\* A descriptor the scan passes over: an object with neither the marker in
\* its title nor a 'url' under 'subtitles'.
Inert(d) ==
  d.shape = "map" /\ ~HasMarker(d.title) /\ d.subtitles \in {"absent", "nourl"}

\* A descriptor that has a 'subtitles' entry with a 'url'.
Qualifies(d) == d.shape = "map" /\ d.subtitles \notin {"absent", None, "nourl"}

\* The response has a 'files' member, and the exclusion marker is met (in the
\* publication title, or in a descriptor title) before anything else than
\* inert descriptors.
ExcludedFirst(links) ==
  /\ links.shape \in {"files_notmap", "nolang", "lang_notmap", "ok"}
  /\ \/ HasMarker(links.pubName)
     \/ /\ links.shape = "ok"
        /\ \E i \in DOMAIN ScanOrder(links) :
             /\ ScanOrder(links)[i].shape = "map"
             /\ HasMarker(ScanOrder(links)[i].title)
             /\ \A j \in 1..(i - 1) : Inert(ScanOrder(links)[j])

(***************************************************************************)
(* C1.  A second run issues no asset GET for a key whose persisted status  *)
(* after the previous run is success ('success' / 'processed') or          *)
(* 'skipped'.  Stated as the claim; the code violates it when the status   *)
(* lookup raises (is_vtt_processed then answers None).                     *)
(***************************************************************************)
C1_NoFetchForDoneKeys ==
  \A k \in Keys :
    startStatus[k] \in {"success", "processed", "skipped"} => k \notin fetched

(***************************************************************************)
(* C2.  Store reads and writes succeeding, every key a run has taken from  *)
(* the catalog has exactly one row, of terminal status, when the run ends; *)
(* no path through resolution and fetch ends with no row for the key.      *)
(* Stated as the claim; a response that makes the scan raise ends the run  *)
(* with no row for the key.                                                *)
(***************************************************************************)
C2_OneTerminalRecordPerKey ==
  (pc \in {"done", "crashed"} /\ dbFault = {}) =>
    \A i \in TakenUp :
      /\ Cardinality(RowsOf(db, KeyOf(catalog[i]))) = 1
      /\ SelectStatus(db, KeyOf(catalog[i])) \in TerminalStatuses

C4_NonTransientAbortsAtOnce ==
  \A i \in DOMAIN events :
    (events[i].op = "fetch" /\ events[i].what \in {"MissingSchema", "OSError"}) =>
      /\ \A j \in DOMAIN events : j > i => events[j] = Ev("mark", "failed", 0)
      /\ pc \notin {"sleep", "fetch", "attempt"}

(***************************************************************************)
(* C5.  In download_vtt_files a response of unexpected shape never makes   *)
(* an error leave the function: the run goes on with the next entry.       *)
(* Stated as the claim; the code has no handler around the scan.           *)
(***************************************************************************)
C5_ShapeErrorNeverPropagates == prog = "vtt" => pc # "crashed"

(***************************************************************************)
(* C6.  In download_vtt_files a key whose persisted status is 'success' or *)
(* 'skipped' is not revisited by a run: no link resolution, no fetch, no   *)
(* write.  Stated as the claim, for the runs whose lookups all succeed;    *)
(* the code resolves a 'skipped' key again and rewrites its row.           *)
(***************************************************************************)
C6_DoneKeysNeverRevisited ==
  (prog = "vtt" /\ "read" \notin dbFault) =>
    \A k \in Keys :
      startStatus[k] \in {"success", "skipped"} =>
        k \notin resolved /\ k \notin fetched /\ k \notin written

C8_ProcessedNeverAgainOthersOncePerRun ==
  prog = "jwpub" =>
    \A k \in Keys :
      /\ startStatus[k] = "processed" => k \notin resolved /\ k \notin fetched
      /\ nAttempt[k] <= 1
      /\ \A i \in Passed :
           (JwKey(catalog[i]) = k /\ startStatus[k] # "processed"
              /\ "read" \notin dbFault) => nAttempt[k] >= 1

(***************************************************************************)
(* C9.  Exclusion precedence: when the response has the exclusion marker   *)
(* in the publication title, or in a descriptor title before any           *)
(* descriptor carrying a subtitle URL is reached (the same descriptor may  *)
(* carry both), no fetch is made for the key and its row, once written, is *)
(* 'skipped' with a null URL.                                              *)
(***************************************************************************)
C9_ExclusionPrecedence ==
  prog = "vtt" =>
    \A k \in Keys :
      (api[k] # Unset /\ ExcludedFirst(api[k])) =>
        /\ k \notin fetched
        /\ (pc \in {"fetch", "sleep"} => VttKey(catalog[idx]) # k)
        /\ \A r \in RowsOf(db, k) : db[r].status = "skipped" /\ db[r].url = None
        /\ (k \in written /\ "write" \notin dbFault) => RowsOf(db, k) # {}

C9_Witness ==
  /\ prog = "vtt" /\ EntryOver
  /\ \E i \in Passed :
       LET k == VttKey(catalog[i]) IN
       /\ api[k].shape = "ok" /\ ~HasMarker(api[k].pubName)
       /\ ExcludedFirst(api[k])
       /\ \E d \in DOMAIN ScanOrder(api[k]) :
            /\ HasMarker(ScanOrder(api[k])[d].title)
            /\ ScanOrder(api[k])[d].subtitles \in GoodUrls
            /\ \A j \in 1..(d - 1) : Inert(ScanOrder(api[k])[j])
       /\ SelectStatus(db, k) = "skipped"
       /\ k \notin fetched

(***************************************************************************)
(* C10.  First match wins: a selected URL is the 'url' of the first        *)
(* descriptor, all of MP4 in response order before any of MP3, that has a  *)
(* 'subtitles' entry with a 'url'; no later qualifying descriptor is       *)
(* chosen.                                                                 *)
(***************************************************************************)
C10_FirstMatchWins ==
  (prog = "resolve" /\ resolution.outcome = "fetch") =>
    /\ media_links.shape = "ok"
    /\ \E i \in DOMAIN ScanOrder(media_links) :
         /\ Qualifies(ScanOrder(media_links)[i])
         /\ resolution.url = ScanOrder(media_links)[i].subtitles
         /\ \A j \in 1..(i - 1) : ~Qualifies(ScanOrder(media_links)[j])

C10_Witness ==
  /\ prog = "resolve" /\ resolution.outcome = "fetch"
  /\ Len(media_links.MP4) = 1 /\ Len(media_links.MP3) = 1
  /\ Qualifies(media_links.MP4[1]) /\ Qualifies(media_links.MP3[1])
  /\ media_links.MP4[1].subtitles # media_links.MP3[1].subtitles
  /\ resolution.url = media_links.MP4[1].subtitles

\* The response has a 'files' member, no exclusion marker is met, and the scan
\* finds no descriptor with a subtitle URL: the language branch is missing, or
\* every descriptor under MP4 and MP3 is inert.
NothingToSelect(links) ==
  /\ ~HasMarker(links.pubName)
  /\ \/ links.shape = "nolang"
     \/ /\ links.shape = "ok"
        /\ \A i \in DOMAIN ScanOrder(links) : Inert(ScanOrder(links)[i])

(***************************************************************************)
(* C11.  When the response has 'files' but no branch for the configured    *)
(* language, or no descriptor with a subtitle URL under MP4 or MP3, and no *)
(* exclusion marker is met, the key ends as 'no_subtitles' with a null     *)
(* URL; no fetch is made for it (so no file is written).                   *)
(***************************************************************************)
C11_UnavailableWhenNothingToSelect ==
  prog = "vtt" =>
    \A k \in Keys :
      (api[k] # Unset /\ NothingToSelect(api[k])) =>
        /\ k \notin fetched
        /\ (pc \in {"fetch", "sleep"} => VttKey(catalog[idx]) # k)
        /\ \A r \in RowsOf(db, k) :
             db[r].status = "no_subtitles" /\ db[r].url = None
        /\ (k \in written /\ "write" \notin dbFault) => RowsOf(db, k) # {}

C11_Witness ==
  /\ prog = "vtt" /\ EntryOver
  /\ \E i \in Passed :
       LET k == VttKey(catalog[i]) IN
       /\ api[k].shape = "ok" /\ NothingToSelect(api[k])
       /\ \E d \in DOMAIN ScanOrder(api[k]) : ScanOrder(api[k])[d].subtitles = "nourl"
       /\ SelectStatus(db, k) = "no_subtitles"
       /\ k \in written /\ k \notin fetched

\* url is the 'url' of the first descriptor of the response, in scan order,
\* that has a 'subtitles' entry with a 'url'.
IsFirstSubtitleUrl(links, url) ==
  /\ links.shape = "ok"
  /\ \E i \in DOMAIN ScanOrder(links) :
       /\ Qualifies(ScanOrder(links)[i])
       /\ ScanOrder(links)[i].subtitles = url
       /\ \A j \in 1..(i - 1) : ~Qualifies(ScanOrder(links)[j])

(***************************************************************************)
(* C12.  A row of status 'success' stores the URL that the scan selected   *)
(* from the response of that same key, which is the URL the GET was made   *)
(* on: never null, never a URL left over from another entry.               *)
(***************************************************************************)
C12_SuccessStoresSelectedUrl ==
  prog = "vtt" =>
    /\ \A r \in DOMAIN db :
         db[r].status = "success" =>
           /\ db[r].url \in GoodUrls
           /\ api[db[r].key] # Unset
           /\ IsFirstSubtitleUrl(api[db[r].key], db[r].url)
    /\ pc \in {"fetch", "sleep"} =>
         /\ asset_url \in GoodUrls
         /\ IsFirstSubtitleUrl(api[VttKey(catalog[idx])], asset_url)

C12_Witness ==
  /\ prog = "vtt" /\ EntryOver
  /\ \E i \in Passed :
       LET k == VttKey(catalog[i]) IN
       /\ k \in fetched /\ k \in written
       /\ Len(ScanOrder(api[k])) = 2
       /\ Inert(ScanOrder(api[k])[1])
       /\ \E r \in RowsOf(db, k) :
            /\ db[r].status = "success"
            /\ db[r].url = ScanOrder(api[k])[2].subtitles

(***************************************************************************)
(* C13.  Crash resumption.  A process killed while a previously unrecorded *)
(* key is between RESOLVE and the write of its row leaves no row for the   *)
(* key; the next run finds the key without a row and, when it comes to it  *)
(* (its lookup succeeding), processes it from RESOLVE again: a new         *)
(* resolution call and, when a URL is selected, a new GET.                 *)
(***************************************************************************)
C13_KilledKeyIsReprocessed ==
  \A k \in interrupted :
    /\ pc = "killed" => RowsOf(db, k) = {}
    /\ pc # "killed" =>
         /\ run = "later" /\ startStatus[k] = None
         /\ \A i \in Passed :
              (KeyOf(catalog[i]) = k /\ "read" \notin dbFault) =>
                /\ k \in resolved /\ nAttempt[k] >= 1
                /\ (prog = "vtt" /\ Resolve(api[k]).outcome = "fetch") =>
                     k \in fetched

C13_Witness ==
  /\ prog = "vtt" /\ pc = "done" /\ run = "later"
  /\ \E i \in Passed :
       LET k == VttKey(catalog[i]) IN
       /\ k \in interrupted
       /\ k \in resolved /\ k \in fetched
       /\ SelectStatus(db, k) = "success"

SuccessStatuses == {"success", "processed", "downloaded"}

(***************************************************************************)
(* C14.  Per-key ordering, in the three scripts: every asset GET of an     *)
(* entry comes after a completed link resolution of that entry; the write  *)
(* of the entry's row is the last call of the entry, after its last GET;   *)
(* and a success row ('success', 'processed', 'downloaded') is written     *)
(* directly after a GET whose body was completely written to the file.     *)
(***************************************************************************)
C14_ResolveThenFetchThenRecord ==
  /\ \A i \in DOMAIN events :
       /\ events[i].op = "fetch" =>
            \E j \in 1..(i - 1) :
              events[j].op = "resolve" /\ events[j].what \in {"ok", "fetch"}
       /\ events[i].op = "mark" => i = Len(events)
       /\ (events[i].op = "mark" /\ events[i].what \in SuccessStatuses) =>
            i > 1 /\ events[i - 1] = Ev("fetch", "ok", 0)
  /\ fetched \subseteq resolved
  /\ (pc \in {"fetch", "sleep"} /\ prog \in {"vtt", "jwpub", "main"}) =>
       KeyOf(catalog[idx]) \in resolved

C14_Witness ==
  /\ prog = "jwpub" /\ EntryOver
  /\ Len(events) = 6
  /\ events[1] = Ev("resolve", "ok", 0)
  /\ events[2] = Ev("fetch", "ConnectionError", 0)
  /\ events[3].op = "sleep"
  /\ events[4] = Ev("resolve", "ok", 0)
  /\ events[5] = Ev("fetch", "ok", 0)
  /\ events[6] = Ev("mark", "processed", 0)
  /\ SelectStatus(db, JwKey(catalog[idx - 1])) = "processed"

CompletedResolutions(evs) ==
  SelectSeq(evs, LAMBDA e : e.op = "resolve" /\ e.what = "ok")

(***************************************************************************)
(* C15.  In download_jwpubs the link resolution is carried out at most     *)
(* once while one key is processed: a transient failure of the byte        *)
(* transfer repeats the byte transfer only.  Stated as the claim; the retry loop of *)
(* the code encloses the resolution call, which is repeated on every       *)
(* retry.                                                                  *)
(***************************************************************************)
C15_ResolutionOncePerKey ==
  prog = "jwpub" =>
    /\ Len(CompletedResolutions(events)) <= 1
    /\ \A i \in DOMAIN events :
         (events[i].op = "fetch" /\ events[i].what \in TransientErrors) =>
           \A j \in DOMAIN events : j > i => events[j].op # "resolve"

\* The lines the claim calls skipped, and the well-formed media-item lines.
BadLine(l) == l.kind \in {"badjson", "notype", "other"}

WellFormedItem(l) ==
  /\ l.kind = "item"
  /\ l.pubSymbol # None /\ l.track # NoTrack /\ l.formatCode # None
  /\ l.naturalKey # None

Yields(out, l) == \E m \in DOMAIN out : out[m] = VttTuple(l)

(***************************************************************************)
(* C16.  A line that fails to parse, a line without 'type' and a line of   *)
(* another type are skipped without ending the ingestion: every            *)
(* well-formed media-item line after such a line is still yielded by       *)
(* extract_media_info (media-vtt.py, media.py) and still taken up by       *)
(* process_json_file (main.py).  Stated as the claim; in the three files   *)
(* the try block encloses the loop, so the first line that raises ends it. *)
(***************************************************************************)
C16_BadLinesAreSkipped ==
  (prog = "ingest" /\ media_info.state = "done") =>
    \A i, j \in DOMAIN lines :
      (i < j /\ BadLine(lines[i]) /\ WellFormedItem(lines[j])) =>
        /\ Yields(media_info.vtt, lines[j])
        /\ Yields(media_info.media, [lines[j] EXCEPT !.naturalKey = None])
        /\ Yields(media_info.main, lines[j])

(***************************************************************************)
(* C17.  extract_media_info of media-vtt.py yields a media-item line if    *)
(* and only if the line carries pubSymbol and formatCode; a line whose     *)
(* track is 0 or absent is still yielded.  Stated as the claim, for the    *)
(* lines the loop reaches (no earlier line raises); the code also drops    *)
(* the lines without a track and those without naturalKey.                 *)
(***************************************************************************)
C17_YieldedIffSymbolAndFormat ==
  (prog = "ingest" /\ media_info.state = "done") =>
    \A j \in DOMAIN lines :
      (/\ lines[j].kind = "item"
       /\ \A i \in 1..(j - 1) : lines[i].kind \notin {"badjson", "notype"}) =>
        (Yields(media_info.vtt, lines[j]) <=>
           (lines[j].pubSymbol # None /\ lines[j].formatCode # None))

(***************************************************************************)
(* C18.  Per-key mutual exclusion of two processes of download_vtt_files   *)
(* on the same catalog and table: under every interleaving no key is       *)
(* resolved by both, none is fetched by both and the row of none is        *)
(* written by both.  Stated as the claim; the code has no claim on a key   *)
(* between its lookup and its write.                                       *)
(***************************************************************************)
C18_NoKeyHandledByBoth ==
  other.pc # "absent" =>
    /\ resolved \cap other.resolved = {}
    /\ fetched \cap other.fetched = {}
    /\ written \cap other.written = {}

\* Link resolution failed: get_pub_media_links returned None (non-success
\* status, or the request raised), or the response has no 'files' member.
ResolutionFailed(links) == links.shape \in {"None", "nofiles"}

(***************************************************************************)
(* C19.  When link resolution fails for a key, the key is recorded         *)
(* 'failed' with a null URL, no fetch is attempted for it, and the run     *)
(* goes on with the next key.                                              *)
(***************************************************************************)
C19_ResolutionFailureIsRecorded ==
  prog = "vtt" =>
    \A k \in Keys :
      (api[k] # Unset /\ ResolutionFailed(api[k])) =>
        /\ k \notin fetched
        /\ (pc \in {"fetch", "sleep", "crashed"} => VttKey(catalog[idx]) # k)
        /\ \A r \in RowsOf(db, k) : db[r].status = "failed" /\ db[r].url = None
        /\ (k \in written /\ "write" \notin dbFault) => RowsOf(db, k) # {}

C19_Witness ==
  /\ prog = "vtt" /\ run = "first" /\ pc = "done" /\ dbFault = {}
  /\ \E i, j \in Passed :
       /\ i < j /\ VttKey(catalog[i]) # VttKey(catalog[j])
       /\ api[VttKey(catalog[i])].shape = "None"
       /\ SelectStatus(db, VttKey(catalog[i])) = "failed"
       /\ VttKey(catalog[i]) \notin fetched
       /\ VttKey(catalog[j]) \in resolved
       /\ SelectStatus(db, VttKey(catalog[j])) = "success"

\* A step of the loop head of download_vtt_files on which the status lookup
\* raised: the fault is recorded, or the local status is None although the
\* key has a row.
LookupFailsOnStep ==
  /\ prog = "vtt" /\ pc = "start"
  /\ \/ ("read" \notin dbFault /\ "read" \in dbFault')
     \/ (status' = None /\ RowsOf(db, VttKey(catalog[idx])) # {})

(***************************************************************************)
(* C20.  When the status lookup of a key fails with a storage error, the   *)
(* entry is aborted: the loop passes to the next entry (or ends), so the   *)
(* key is not resolved and not fetched by this entry; in particular a key  *)
(* stored as 'success' is not fetched again.  Stated as the claim;         *)
(* is_vtt_processed answers None after a storage error and the entry       *)
(* proceeds to the resolution call.                                        *)
(***************************************************************************)
C20_LookupFailureAbortsEntry ==
  [][LookupFailsOnStep => pc' \in {"start", "done"}]_vars

\* The status and URL stored for a key: the (status, url) pairs of its rows.
RecordOf(rows, k) ==
  {[status |-> rows[i].status, url |-> rows[i].url] : i \in RowsOf(rows, k)}

\* A step that leaves the record of every key but the current entry's as it
\* was.
OtherRecordsKept ==
  prog \in {"vtt", "jwpub"} =>
    \A k \in Keys :
      IF idx \in DOMAIN catalog /\ k = KeyOf(catalog[idx]) THEN TRUE
      ELSE RecordOf(db', k) = RecordOf(db, k)

(***************************************************************************)
(* C21.  Processing one key in download_vtt_files or download_jwpubs,      *)
(* whatever its outcome (success, skipped, unavailable, failed, or a write *)
(* that raised), changes at most the record of that key: on every step the *)
(* status and URL stored for every other key are unchanged.                *)
(***************************************************************************)
C21_OtherRecordsUnchanged ==
  [][OtherRecordsKept]_vars

C21_Witness ==
  /\ prog \in {"vtt", "jwpub"} /\ run = "later" /\ pc = "done"
  /\ \E k1, k2 \in Keys :
       /\ k1 # k2 /\ k1 \in written /\ k2 \notin written
       /\ startStatus[k1] # None /\ startStatus[k2] # None
       /\ SelectStatus(db, k1) # startStatus[k1]
       /\ SelectStatus(db, k2) = startStatus[k2]

\* The last mark call of a sequence that wrote the key: the calls that raised
\* wrote nothing.
WritesOf(calls, k) == {i \in DOMAIN calls : calls[i].key = k /\ ~calls[i].raised}

LastWrite(calls, k) ==
  calls[CHOOSE i \in WritesOf(calls, k) : \A j \in WritesOf(calls, k) : j <= i]

(***************************************************************************)
(* C22.  After any sequence of mark_vtt_as_downloaded calls the table      *)
(* holds at most one row per (pubSymbol, track, formatCode); the row of a  *)
(* key holds the status and the URL of the most recent write of that key,  *)
(* both of the same write, and a key never written has no row; a lookup    *)
(* that reads the table returns the status of the most recent write made   *)
(* before it, None when there was none.                                    *)
(***************************************************************************)
C22_RowIsTheMostRecentWrite ==
  prog = "store" =>
    /\ \A k \in VttKeys :
         /\ Cardinality(RowsOf(db, k)) <= 1
         /\ WritesOf(events, k) = {} => RowsOf(db, k) = {}
         /\ WritesOf(events, k) # {} =>
              RecordOf(db, k) = {[status |-> LastWrite(events, k).status,
                                  url |-> LastWrite(events, k).url]}
    /\ (media_links.op = "lookup" /\ ~media_links.raised) =>
         LET before == SubSeq(events, 1, media_links.at)
         IN  status = IF WritesOf(before, media_links.key) = {} THEN None
                      ELSE LastWrite(before, media_links.key).status

C22_Witness ==
  /\ prog = "store" /\ Len(events) = MaxCalls
  /\ media_links.op = "lookup" /\ ~media_links.raised
  /\ media_links.at = MaxCalls
  /\ \E i, j \in WritesOf(events, media_links.key) :
       /\ i < j /\ j = MaxCalls
       /\ events[i].status # events[j].status /\ events[i].url # events[j].url
       /\ status = events[j].status
       /\ \E r \in RowsOf(db, media_links.key) : db[r].url = events[j].url

(***************************************************************************)
(* C23.  When the catalog holds two lines with the same (pubSymbol, track, *)
(* formatCode), download_vtt_files resolves that key at most once in the   *)
(* run: once the first occurrence has reached a terminal status, the later *)
(* occurrence makes no resolution call, no fetch and no write.  Stated as  *)
(* the claim, for the runs without a storage error; the skip check of      *)
(* lines 155-160 passes over 'success' and 'failed' only, so a key that    *)
(* ended 'skipped' or 'no_subtitles' is resolved again by its second line. *)
(***************************************************************************)
C23_DuplicateLineResolvedOnce ==
  (prog = "vtt" /\ dbFault = {}) => \A k \in Keys : nAttempt[k] <= 1

(***************************************************************************)
(* C24.  When the file response of download_jwpubs carries no usable       *)
(* Content-Disposition filename, the file name is a function of (Symbol,   *)
(* IssueTagNumber) alone: two rows with the same key get the same fallback *)
(* name whatever else differs, and two rows with distinct keys never get   *)
(* the same fallback name.                                                 *)
(***************************************************************************)
C24_FallbackNameIsInjectiveOnKey ==
  (/\ prog = "names" /\ media_info.state = "done"
   /\ media_info.names[1].fallback /\ media_info.names[2].fallback) =>
      (JwKey(catalog[1]) = JwKey(catalog[2])
         <=> media_info.names[1].name = media_info.names[2].name)

C24_Witness ==
  /\ prog = "names" /\ media_info.state = "done"
  /\ media_info.names[1].fallback /\ media_info.names[2].fallback
  /\ catalog[1].symbol = <<"w", "1">> /\ catalog[1].issue_tag_number = 1
  /\ catalog[2].symbol = <<"w">> /\ catalog[2].issue_tag_number = 11
  /\ media_info.names[1].name = <<"w", "1", "_", "1", ".", "j", "w", "p", "u", "b">>
  /\ media_info.names[2].name # media_info.names[1].name

(***************************************************************************)
(* C25.  In main.py a failure inside fetch_and_download_media (connecting  *)
(* to the remote browser, creating the page, navigation, the download)     *)
(* does not stop the run: the loop of process_json_file is never ended by  *)
(* a step of fetch_and_download_media, so the remaining entries are still  *)
(* taken up.  Stated as the claim; when connect or new_page raises, `page` *)
(* is unbound in the finally block (line 129), the UnboundLocalError       *)
(* leaves the function and is caught outside the loop (line 154).          *)
(***************************************************************************)
C25_EntryFailureDoesNotEndRun ==
  (prog = "main" /\ pc = "crashed") => events = <<>>

(***************************************************************************)
(* C26.  A stuck network call does not block the pipeline for ever: when a *)
(* link-resolution or asset-fetch request of download_vtt_files or         *)
(* download_jwpubs never receives a response, the pipeline eventually      *)
(* abandons the call and passes to the next key (or ends the run).  Stated *)
(* as the claim; no requests.get of the two scripts is given a timeout.    *)
(***************************************************************************)
C26_StuckCallIsAbandoned ==
  (pc = "hung") ~> (pc \in {"start", "done"})

\* Every key of the catalog has a record with a terminal status.
EveryKeyHasOutcome ==
  \A i \in DOMAIN catalog : SelectStatus(db, KeyOf(catalog[i])) \in TerminalStatuses

(***************************************************************************)
(* C27.  Provided every network and storage call returns, with a result or *)
(* with an error, the processing of each key in download_vtt_files and     *)
(* download_jwpubs makes at most max_retries fetch attempts, and the run   *)
(* eventually reaches the end of the catalog with every key in one of the  *)
(* terminal statuses.  Stated as the claim; a response of unexpected shape *)
(* ends the run of media-vtt.py before the end of the catalog, and a write *)
(* that raises leaves the key without a status.                            *)
(***************************************************************************)
C27_RunEndsWithDefiniteOutcomes ==
  /\ [](Len(FetchEvents(events)) <= MaxRetriesOfProg)
  /\ <>(pc = "done" /\ EveryKeyHasOutcome)

\* A descriptor that is an object, with 'subtitles' absent or an object.
WellFormed(d) == d.shape = "map" /\ d.subtitles # None

\* The response reaches the scan with an unmarked publication title, and a
\* descriptor with a subtitle URL and an unmarked title comes, in scan order,
\* before every descriptor with a marked title; the descriptors before it
\* are well-formed.
IncludedFirst(links) ==
  /\ links.shape = "ok" /\ ~HasMarker(links.pubName)
  /\ \E i \in DOMAIN ScanOrder(links) :
       /\ WellFormed(ScanOrder(links)[i])
       /\ ScanOrder(links)[i].subtitles \in GoodUrls
       /\ ~HasMarker(ScanOrder(links)[i].title)
       /\ \A j \in 1..(i - 1) :
            WellFormed(ScanOrder(links)[j]) /\ ~HasMarker(ScanOrder(links)[j].title)

(***************************************************************************)
(* C28.  Inclusion reached first wins over a later exclusion: when the     *)
(* publication title is not excluded and a descriptor with a subtitle URL  *)
(* and a non-excluded title comes, in scan order, before every descriptor  *)
(* with the marker in its title, a URL is selected and the key is fetched, *)
(* never marked 'skipped' or 'no_subtitles'; and a response scanned        *)
(* without an error ends in exactly one of: URL selected, 'skipped',       *)
(* 'no_subtitles'.  Stated as the claim; a descriptor whose subtitle url   *)
(* is the empty string ends the scan (line 194) and the key is marked      *)
(* 'no_subtitles' although a descriptor with a URL follows.                *)
(***************************************************************************)
C28_InclusionFirstWins ==
  (prog = "resolve" /\ resolution.outcome # "unset") =>
    /\ IncludedFirst(media_links) => resolution.outcome = "fetch"
    /\ (media_links.shape \in {"nolang", "ok"} /\ resolution.outcome # "raise") =>
         resolution.outcome \in {"fetch", "skipped", "no_subtitles"}

(***************************************************************************)
(* C29.  In publications.py, for a row whose issue tag number is not 0 the *)
(* pub parameter of the lookup is the first character of the symbol when   *)
(* the symbol starts with 'w' or with 'g', and 'km' otherwise, and the     *)
(* issue number is sent; for issue tag number 0 the full symbol is sent    *)
(* and no issue number.  Stated as the claim; `"w" or "g"` is "w", so a    *)
(* symbol that starts with 'g' is looked up as 'km'.                       *)
(***************************************************************************)
C29_LookupKeyChoice ==
  (prog = "lookup" /\ resolution.outcome = "query") =>
    LET symbol == catalog[1].symbol
        issue == catalog[1].issue_tag_number
    IN  IF issue # 0
        THEN /\ resolution.url.pub =
                  IF StartsWith(symbol, <<"w">>) \/ StartsWith(symbol, <<"g">>)
                  THEN <<symbol[1]>> ELSE <<"k", "m">>
             /\ resolution.url.issue = Str(issue)
        ELSE resolution.url.pub = symbol /\ resolution.url.issue = <<>>

====
